---- MODULE Spec2Model ----
(***************************************************************************)
(* Gemini adapter of open_webUI_medic: the error taxonomy                  *)
(* (utils/gemini/errors.py), the client (utils/gemini/client.py) and the   *)
(* boundary handlers (routers/gemini.py).                                  *)
(*                                                                         *)
(* Text that the code inspects (lower(), substring tests, f-strings) is a  *)
(* sequence of one-character strings; JSON objects are functions from      *)
(* their keys; JSON arrays are sequences.                                  *)
(***************************************************************************)
EXTENDS Integers, Sequences, FiniteSets, TLC

VARIABLES
    cfg,        \* routers/gemini.py globals GEMINI_API_KEY, GEMINI_API_BASE_URL, ENABLE_GEMINI_API
    client,     \* the module-level gemini_client: its api_key and api_base_url attributes
    pc,         \* position of the call in flight
    call,       \* the boundary operation in flight and its request
    session,    \* the aiohttp ClientSession of the call: "none", "open", "closed"
    requests,   \* HTTP requests issued by the call in flight, in order
    reply,      \* what the transport produced for the request
    raised,     \* the exception raised inside the try block of _make_request
    clientOut,  \* what crossed the Client boundary (list_models / generate_content)
    httpOut,    \* what the boundary handler produced
    events,     \* events delivered to the consumer of a streaming response
    nlines,     \* lines the transport delivered to the streaming loop so far
    readClosed, \* TRUE once the response body was read with its session closed
    norm        \* last application of _process_response: its input and its outcome

vars == <<cfg, client, pc, call, session, requests, reply, raised, clientOut,
          httpOut, events, nlines, readClosed, norm>>

-----------------------------------------------------------------------------
(* Bounds *)

MaxParts == 2
MaxCandidates == 2
MaxLines == 2

-----------------------------------------------------------------------------
(* Text *)

LowerMap ==
    [A |-> "a", B |-> "b", C |-> "c", D |-> "d", E |-> "e", F |-> "f", G |-> "g", H |-> "h", I |-> "i", J |-> "j", K |-> "k", L |-> "l", M |-> "m", N |-> "n", O |-> "o", P |-> "p", Q |-> "q", R |-> "r", S |-> "s", T |-> "t", U |-> "u", V |-> "v", W |-> "w", X |-> "x", Y |-> "y", Z |-> "z"]

\* str.lower(), character by character
Lower(s) ==
    [i \in 1..Len(s) |-> IF s[i] \in DOMAIN LowerMap THEN LowerMap[s[i]] ELSE s[i]]

\* Python's `sub in s`
Contains(sub, s) ==
    \E i \in 1..(Len(s) - Len(sub) + 1) : SubSeq(s, i, i + Len(sub) - 1) = sub

\* Literals of the source

PhraseModelNotFound ==
    <<"m", "o", "d", "e", "l", " ", "n", "o", "t", " ", "f", "o", "u", "n", "d">>

PhraseContextLength ==
    <<"c", "o", "n", "t", "e", "x", "t", " ", "l", "e", "n", "g", "t", "h", " ", "e", "x", "c", "e", "e", "d", "e", "d">>

MsgUnknownError ==
    <<"U", "n", "k", "n", "o", "w", "n", " ", "e", "r", "r", "o", "r">>

MsgInvalidApiKey ==
    <<"I", "n", "v", "a", "l", "i", "d", " ", "A", "P", "I", " ", "k", "e", "y">>

MsgRequestTimedOut ==
    <<"R", "e", "q", "u", "e", "s", "t", " ", "t", "i", "m", "e", "d", " ", "o", "u", "t">>

MsgRequestFailed ==
    <<"R", "e", "q", "u", "e", "s", "t", " ", "f", "a", "i", "l", "e", "d", ":", " ">>

MsgNoResponse ==
    <<"N", "o", " ", "r", "e", "s", "p", "o", "n", "s", "e", " ", "f", "r", "o", "m", " ", "t", "h", "e", " ", "m", "o", "d", "e", "l">>

MsgEmptyResponse ==
    <<"E", "m", "p", "t", "y", " ", "r", "e", "s", "p", "o", "n", "s", "e", " ", "f", "r", "o", "m", " ", "t", "h", "e", " ", "m", "o", "d", "e", "l">>

MsgModelPrefix ==
    <<"M", "o", "d", "e", "l", " ", "'">>

MsgNotFoundSuffix ==
    <<"'", " ", "n", "o", "t", " ", "f", "o", "u", "n", "d">>

IdUnknown ==
    <<"u", "n", "k", "n", "o", "w", "n">>

MsgKeyRequired ==
    <<"G", "e", "m", "i", "n", "i", " ", "A", "P", "I", " ", "k", "e", "y", " ", "i", "s", " ", "r", "e", "q", "u", "i", "r", "e", "d">>

MsgNotEnabled ==
    <<"G", "e", "m", "i", "n", "i", " ", "A", "P", "I", " ", "i", "s", " ", "n", "o", "t", " ", "e", "n", "a", "b", "l", "e", "d">>

MsgKeyNotConfigured ==
    <<"G", "e", "m", "i", "n", "i", " ", "A", "P", "I", " ", "k", "e", "y", " ", "i", "s", " ", "n", "o", "t", " ", "c", "o", "n", "f", "i", "g", "u", "r", "e", "d">>

\* Inputs: provider messages, a transport diagnostic, requested model ids

MsgQuota ==
    <<"q", "u", "o", "t", "a", " ", "e", "x", "c", "e", "e", "d", "e", "d">>

MsgModelNotFoundLower ==
    <<"m", "o", "d", "e", "l", " ", "n", "o", "t", " ", "f", "o", "u", "n", "d">>

MsgModelNotFoundMixed ==
    <<"M", "o", "d", "e", "l", " ", "N", "o", "t", " ", "F", "o", "u", "n", "d">>

MsgNoSuchPath ==
    <<"n", "o", " ", "s", "u", "c", "h", " ", "p", "a", "t", "h">>

MsgContextLower ==
    <<"c", "o", "n", "t", "e", "x", "t", " ", "l", "e", "n", "g", "t", "h", " ", "e", "x", "c", "e", "e", "d", "e", "d">>

MsgContextMixed ==
    <<"C", "o", "n", "t", "e", "x", "t", " ", "L", "e", "n", "g", "t", "h", " ", "E", "x", "c", "e", "e", "d", "e", "d">>

MsgBadRequest ==
    <<"b", "a", "d", " ", "r", "e", "q", "u", "e", "s", "t">>

MsgConnRefused ==
    <<"r", "e", "f", "u", "s", "e", "d">>

IdBadModel ==
    <<"b", "a", "d", "-", "m", "o", "d", "e", "l">>

IdGeminiPro ==
    <<"g", "e", "m", "i", "n", "i", "-", "p", "r", "o">>

-----------------------------------------------------------------------------
(* JSON helpers *)

\* dict.get(k, default)
Get(d, k, default) == IF k \in DOMAIN d THEN d[k] ELSE default

\* Python's None where a status code is expected
None == 0

\* Python's None where a request body (a dict) is expected
NoData == [none |-> 0]

-----------------------------------------------------------------------------
(* errors.py: the taxonomy.  An exception is its class, str(e) and status_code. *)

Exc(cls, message, status_code) ==
    [cls |-> cls, message |-> message, status_code |-> status_code]

\* class -> its direct base class
Parent ==
    [GeminiError |-> "Exception",
     GeminiAPIError |-> "GeminiError",
     GeminiAuthenticationError |-> "GeminiAPIError",
     GeminiRateLimitError |-> "GeminiAPIError",
     GeminiModelNotFoundError |-> "GeminiAPIError",
     GeminiInvalidRequestError |-> "GeminiAPIError",
     GeminiContextLengthExceededError |-> "GeminiAPIError",
     GeminiServerError |-> "GeminiAPIError",
     GeminiTimeoutError |-> "GeminiAPIError",
     ClientError |-> "Exception",
     ClientConnectionError |-> "ClientError",
     ContentTypeError |-> "ClientError",
     TimeoutError |-> "Exception",
     TypeError |-> "Exception",
     NameError |-> "Exception",
     AttributeError |-> "Exception",
     KeyError |-> "Exception",
     JSONDecodeError |-> "Exception",
     Exception |-> "Exception"]

RECURSIVE IsSubclass(_, _)
IsSubclass(cls, base) ==
    IF cls = base THEN TRUE
    ELSE IF Parent[cls] = cls THEN FALSE
    ELSE IsSubclass(Parent[cls], base)

IsInstance(e, base) == IsSubclass(e.cls, base)

GeminiError(message, status_code) == Exc("GeminiError", message, status_code)

GeminiAPIError(message, status_code) == Exc("GeminiAPIError", message, status_code)

GeminiAuthenticationError(message) == Exc("GeminiAuthenticationError", message, 401)

GeminiRateLimitError(message) == Exc("GeminiRateLimitError", message, 429)

GeminiModelNotFoundError(model) ==
    Exc("GeminiModelNotFoundError", MsgModelPrefix \o model \o MsgNotFoundSuffix, 404)

GeminiInvalidRequestError(message) == Exc("GeminiInvalidRequestError", message, 400)

GeminiContextLengthExceededError(message) ==
    Exc("GeminiContextLengthExceededError", message, 400)

GeminiServerError(message) == Exc("GeminiServerError", message, 500)

GeminiTimeoutError(message) == Exc("GeminiTimeoutError", message, 504)

\* Exceptions that are not of the taxonomy carry no status_code attribute
RawError(cls, message) == Exc(cls, message, None)

-----------------------------------------------------------------------------
(* client.py: _make_request *)

\* The request body built by generate_content; it has no "model" key
Payload(messages, temperature, max_tokens) ==
    [contents |-> [i \in 1..Len(messages) |->
                      [role |-> messages[i].role,
                       parts |-> <<[text |-> messages[i].content]>>]],
     generationConfig |-> [temperature |-> temperature,
                           maxOutputTokens |-> max_tokens]]

\* response.ok
Ok(status) == status >= 200 /\ status < 300

\* The if/elif chain over response.status: the exception it raises
Classify(error_code, error_message, data) ==
    IF error_code = 401 THEN GeminiAuthenticationError(MsgInvalidApiKey)
    ELSE IF error_code = 429 THEN GeminiRateLimitError(error_message)
    ELSE IF error_code = 404 /\ Contains(PhraseModelNotFound, Lower(error_message))
        THEN GeminiModelNotFoundError(
                 IF data # NoData THEN Get(data, "model", IdUnknown) ELSE IdUnknown)
    ELSE IF error_code = 400
        THEN IF Contains(PhraseContextLength, Lower(error_message))
                THEN GeminiContextLengthExceededError(error_message)
                ELSE GeminiInvalidRequestError(error_message)
    ELSE IF error_code >= 500 THEN GeminiServerError(error_message)
    ELSE GeminiAPIError(error_message, error_code)

\* The body of `if not response.ok`: response.json() raises on a body that is
\* no JSON document; otherwise the message is looked up and classified
NotOkBranch(status, body, data) ==
    IF ~body.parse
        THEN RawError("ContentTypeError", <<>>)
        ELSE Classify(status,
                      Get(Get(body.json, "error", NoData), "message", MsgUnknownError),
                      data)

\* aiohttp.ClientTimeout is the timeout settings class that _make_request itself
\* instantiates with total=self.timeout: it does not derive from BaseException
ClientTimeoutIsExceptionClass == FALSE

\* `asyncio` is never imported by client.py
AsyncioImported == FALSE

\* The three except clauses, tried in order on an exception e leaving the try
\* block: what leaves _make_request.  Matching against a class that is no
\* exception class raises TypeError; evaluating an unbound name raises NameError.
ExceptClauses(e) ==
    IF ~ClientTimeoutIsExceptionClass THEN RawError("TypeError", <<>>)
    ELSE IF IsInstance(e, "ClientError")
        THEN GeminiError(MsgRequestFailed \o e.message, None)
    ELSE IF ~AsyncioImported THEN RawError("NameError", <<>>)
    ELSE IF IsInstance(e, "TimeoutError") THEN GeminiTimeoutError(MsgRequestTimedOut)
    ELSE e

-----------------------------------------------------------------------------
(* client.py: _process_response *)

Return(v) == [kind |-> "return", value |-> v]

Raise(e) == [kind |-> "raise", exc |-> e]

\* _process_response with the empty-parts check lost: a candidate without
\* parts is answered with an empty completion
process_response_defaults_empty(data) ==
    LET candidates == Get(data, "candidates", <<>>)
    IN  IF Len(candidates) = 0
            THEN Raise(GeminiError(MsgNoResponse, None))
            ELSE LET content == Get(candidates[1], "content", [none |-> 0])
                     parts == Get(content, "parts", <<>>)
                 IN  Return(
                        [choices |-> <<
                            [message |-> [role |-> "assistant",
                                          content |-> IF Len(parts) = 0 THEN ""
                                                      ELSE Get(parts[1], "text", "")],
                             finish_reason |-> Get(candidates[1], "finishReason", "stop")]>>,
                         usage |-> [prompt_tokens |-> 0,
                                    completion_tokens |-> 0,
                                    total_tokens |-> 0]])

_process_response(data) ==
    LET candidates == Get(data, "candidates", <<>>)
    IN  IF Len(candidates) = 0
            THEN Raise(GeminiError(MsgNoResponse, None))
            ELSE LET content == Get(candidates[1], "content", [none |-> 0])
                     parts == Get(content, "parts", <<>>)
                 IN  IF Len(parts) = 0
                        THEN Raise(GeminiError(MsgEmptyResponse, None))
                        ELSE Return(
                            [choices |-> <<
                                [message |-> [role |-> "assistant",
                                              content |-> Get(parts[1], "text", "")],
                                 finish_reason |-> Get(candidates[1], "finishReason", "stop")]>>,
                             usage |-> [prompt_tokens |-> 0,
                                        completion_tokens |-> 0,
                                        total_tokens |-> 0]])

-----------------------------------------------------------------------------
(* Inputs *)

Keys == {"", "k1", "k2"}

Urls == {"https://a", "https://b"}

ModelIds == {IdGeminiPro, IdBadModel}

Messages == <<[role |-> "user", content |-> "hi"]>>

Statuses == {400, 401, 403, 404, 429, 500, 503}

ErrMessages ==
    {MsgQuota, MsgModelNotFoundLower, MsgModelNotFoundMixed, MsgNoSuchPath,
     MsgContextLower, MsgContextMixed, MsgBadRequest}

\* Bodies of non-2xx responses: the provider's error envelope, an envelope
\* without a message, a JSON object without "error", and a body that is no JSON
ErrBodies ==
    {[parse |-> TRUE, json |-> [error |-> [message |-> m]]] : m \in ErrMessages}
    \cup {[parse |-> TRUE, json |-> [error |-> [code |-> 7]]],
          [parse |-> TRUE, json |-> [detail |-> "x"]],
          [parse |-> FALSE, json |-> [none |-> 0]]}

\* Sequences over S of length lo..hi
SeqsBetween(S, lo, hi) == UNION {[1..n -> S] : n \in lo..hi}

Parts == {[text |-> "hello"], [text |-> ""], [inlineData |-> "img"]}

Contents ==
    {[role |-> "model"]} \cup {[parts |-> ps] : ps \in SeqsBetween(Parts, 0, MaxParts)}

FinishReasons == {"stop", "MAX_TOKENS"}

FirstCandidates ==
    {[content |-> c, finishReason |-> f] : c \in Contents, f \in FinishReasons}
    \cup {[content |-> c] : c \in Contents}
    \cup {[finishReason |-> f] : f \in FinishReasons}

LaterCandidates ==
    {[content |-> [parts |-> <<[text |-> "other"]>>], finishReason |-> "OTHER"],
     [finishReason |-> "SAFETY"]}

\* Bodies of 2xx generateContent responses and of stream frames
Bodies ==
    {[promptFeedback |-> "blocked"], [candidates |-> <<>>]}
    \cup {[candidates |-> <<c>> \o t] :
            c \in FirstCandidates,
            t \in SeqsBetween(LaterCandidates, 0, MaxCandidates - 1)}

HelloBody ==
    [candidates |-> <<[content |-> [parts |-> <<[text |-> "hello"]>>],
                       finishReason |-> "stop"]>>]

\* Frames the transport delivers to the streaming loop
StreamLines ==
    {[kind |-> "empty"], [kind |-> "notjson"], [kind |-> "nondict"]}
    \cup {[kind |-> "json", data |-> d] :
            d \in {HelloBody, [candidates |-> <<>>],
                   [candidates |-> <<[finishReason |-> "SAFETY"]>>],
                   [candidates |-> <<[content |-> [parts |-> <<[text |-> "lo"]>>]]>>]}}

\* Bodies of 2xx model-listing responses
ModelBodies ==
    {[parse |-> TRUE,
      json |-> [models |-> <<[name |-> <<"models", "gemini-pro">>,
                              displayName |-> "Gemini Pro"]>>]],
     [parse |-> TRUE, json |-> [models |-> <<[name |-> <<"models", "gemini-pro">>]>>]],
     [parse |-> TRUE, json |-> [models |-> <<[displayName |-> "nameless"]>>]],
     [parse |-> TRUE, json |-> [nextPageToken |-> "t"]],
     [parse |-> FALSE, json |-> [none |-> 0]]}

-----------------------------------------------------------------------------
(* Outcomes *)

NoOut == [kind |-> "none"]

NoExc == RawError("none", <<>>)

NoReply == [status |-> None]

NoCall == [op |-> "none", stream |-> FALSE, model |-> IdUnknown]

NoNorm == [data |-> [none |-> 0], out |-> NoOut]

HTTPException(status_code, detail) ==
    [kind |-> "HTTPException", status_code |-> status_code, detail |-> detail]

\* An exception no handler catches: the framework's internal error, or for a
\* streaming response the body ending where the generator died
Unhandled(e) == [kind |-> "unhandled", exc |-> e]

\* The object a call of an async generator function returns
AsyncGeneratorObject == [type |-> "async_generator"]

-----------------------------------------------------------------------------
(* client.py: construction and request building *)

\* GeminiClient.__init__; an absent argument is the empty value
GeminiClientInit(api_key, api_base_url, envKey, envUrl) ==
    LET key == IF api_key # "" THEN api_key ELSE envKey
        url == IF api_base_url # "" THEN api_base_url ELSE envUrl
    IN  IF key = ""
            THEN Raise(GeminiError(MsgKeyRequired, None))
            ELSE Return([api_key |-> key, api_base_url |-> url])

\* endpoint of generate_content
Endpoint(model, stream) ==
    model \o <<":generateContent">> \o (IF stream THEN <<"?alt=sse">> ELSE <<>>)

\* The request _make_request issues: url and credential header come from the
\* attributes of the client object
Request(self, method, endpoint, data) ==
    [method |-> method,
     url |-> <<self.api_base_url, "/">> \o endpoint,
     key |-> self.api_key,
     json |-> data]

-----------------------------------------------------------------------------
(* routers/gemini.py: helpers of the handlers *)

\* `json` is never imported by routers/gemini.py
RouterJsonImported == FALSE

\* `except GeminiError as e: raise HTTPException(e.status_code or 500, str(e))`
ErrorToHTTP(e) ==
    IF IsInstance(e, "GeminiError")
        THEN HTTPException(IF e.status_code # None THEN e.status_code ELSE 500, e.message)
        ELSE Unhandled(e)

\* The list comprehension of get_models; model["name"] raises KeyError
ToGeminiModels(models) ==
    IF \E i \in 1..Len(models) : "name" \notin DOMAIN models[i]
        THEN Unhandled(RawError("KeyError", <<>>))
        ELSE [kind |-> "ok",
              body |-> [i \in 1..Len(models) |->
                  [id |-> models[i].name[Len(models[i].name)],
                   name |-> Get(models[i], "displayName", models[i].name),
                   description |-> Get(models[i], "description", ""),
                   max_tokens |-> Get(models[i], "tokenLimit", 30720)]]]

DataEvent(chunk) == [kind |-> "data", chunk |-> chunk]

ErrorEvent(e) == [kind |-> "error", message |-> e.message, code |-> e.status_code]

DoneEvent == [kind |-> "done"]

StreamOpen == [kind |-> "stream"]

StreamEnd == [kind |-> "stream_end"]

\* generate() of chat_completions when the client generator yields a chunk:
\* the events delivered so far and the state of the response
OnChunk(evs, chunk) ==
    IF RouterJsonImported
        THEN [events |-> Append(evs, DataEvent(chunk)), out |-> StreamOpen]
        ELSE [events |-> evs, out |-> Unhandled(RawError("NameError", <<>>))]

\* generate() when the client generator raises e
OnStreamRaise(evs, e) ==
    IF IsInstance(e, "GeminiError")
        THEN IF RouterJsonImported
                THEN [events |-> evs \o <<ErrorEvent(e), DoneEvent>>, out |-> StreamEnd]
                ELSE [events |-> evs, out |-> Unhandled(RawError("NameError", <<>>))]
        ELSE [events |-> evs, out |-> Unhandled(e)]

\* generate() when the client generator is exhausted
OnExhausted(evs) == [events |-> Append(evs, DoneEvent), out |-> StreamEnd]

-----------------------------------------------------------------------------
(* State machine *)

\* Module import: env values are bound to the router globals and
\* gemini_client = GeminiClient() is built from the same env values
Init ==
    \E k \in Keys, u \in Urls, en \in BOOLEAN :
        /\ cfg = [api_key |-> k, api_base_url |-> u, enabled |-> en]
        /\ client = GeminiClientInit("", "", k, u)
        /\ pc = "idle"
        /\ call = NoCall
        /\ session = "none"
        /\ requests = <<>>
        /\ reply = NoReply
        /\ raised = NoExc
        /\ clientOut = NoOut
        /\ httpOut = NoOut
        /\ events = <<>>
        /\ nlines = 0
        /\ readClosed = FALSE
        /\ norm = NoNorm

\* The handlers exist only when the router module was imported
Loaded == client.kind = "return"

CanBegin == Loaded /\ pc \in {"idle", "done"}

\* A new call starts from a clean per-call state
BeginWith(c, nextPc, cOut, hOut) ==
    /\ call' = c
    /\ pc' = nextPc
    /\ clientOut' = cOut
    /\ httpOut' = hOut
    /\ session' = "none"
    /\ requests' = <<>>
    /\ reply' = NoReply
    /\ raised' = NoExc
    /\ events' = <<>>
    /\ nlines' = 0
    /\ readClosed' = FALSE
    /\ norm' = NoNorm
    /\ UNCHANGED <<cfg, client>>

\* POST /config/update
update_config ==
    /\ Loaded
    /\ \E k \in Keys, u \in Urls, en \in BOOLEAN :
        cfg' = [api_key |-> k, api_base_url |-> u, enabled |-> en]
    /\ UNCHANGED <<client, pc, call, session, requests, reply, raised, clientOut,
                   httpOut, events, nlines, readClosed, norm>>

\* GET /models up to the request of list_models
get_models ==
    /\ CanBegin
    /\ LET c == [op |-> "get_models", stream |-> FALSE, model |-> IdUnknown]
       IN  IF ~cfg.enabled
              THEN BeginWith(c, "done", NoOut, HTTPException(400, MsgNotEnabled))
              ELSE BeginWith(c, "request", NoOut, NoOut)

\* POST /chat/completions up to the request of generate_content.  With
\* stream=false the handler awaits the value of generate_content(...): the
\* function holds a yield, so the call returns an async generator object
\* without running its body, and awaiting that object raises TypeError
chat_completions ==
    /\ CanBegin
    /\ \E m \in ModelIds, st \in BOOLEAN :
        LET c == [op |-> "chat", stream |-> st, model |-> m]
        IN  IF ~cfg.enabled
               THEN BeginWith(c, "done", NoOut, HTTPException(400, MsgNotEnabled))
            ELSE IF cfg.api_key = ""
               THEN BeginWith(c, "done", NoOut, HTTPException(400, MsgKeyNotConfigured))
            ELSE IF st
               THEN BeginWith(c, "request", NoOut, StreamOpen)
            ELSE BeginWith(c, "done", Return(AsyncGeneratorObject),
                           Unhandled(RawError("TypeError", <<>>)))

\* method, endpoint and data that the client operation hands to _make_request
RequestArgs(c) ==
    IF c.op = "get_models"
        THEN [method |-> "GET", endpoint |-> <<>>, data |-> NoData]
        ELSE [method |-> "POST", endpoint |-> Endpoint(c.model, c.stream),
              data |-> Payload(Messages, "0.7", "None")]

\* _make_request: the session is entered and the request issued
SendRequest ==
    /\ pc = "request"
    /\ LET a == RequestArgs(call)
       IN  requests' = Append(requests, Request(client.value, a.method, a.endpoint, a.data))
    /\ session' = "open"
    /\ pc' = "in_flight"
    /\ UNCHANGED <<cfg, client, call, reply, raised, clientOut, httpOut, events,
                   nlines, readClosed, norm>>

\* An exception e leaves the client operation and reaches the handler: the
\* except clause of get_models, or the one inside generate() for a stream
Propagate(e) ==
    /\ clientOut' = Raise(e)
    /\ IF call.op = "chat"
          THEN LET r == OnStreamRaise(events, e)
               IN  events' = r.events /\ httpOut' = r.out
          ELSE events' = events /\ httpOut' = ErrorToHTTP(e)
    /\ pc' = "done"

\* session.request raises: a network fault or the total timeout elapsing.  The
\* exception passes the except clauses and both context managers exit.
TransportFault ==
    /\ pc = "in_flight"
    /\ \E e \in {RawError("ClientConnectionError", MsgConnRefused),
                 RawError("TimeoutError", <<>>)} :
        /\ raised' = e
        /\ Propagate(ExceptClauses(e))
    /\ session' = "closed"
    /\ UNCHANGED <<cfg, client, call, requests, reply, nlines, readClosed, norm>>

\* A non-2xx response: the `if not response.ok` branch raises inside the try
ErrorResponse ==
    /\ pc = "in_flight"
    /\ \E status \in Statuses, body \in ErrBodies :
        /\ reply' = [status |-> status, body |-> body]
        /\ LET e == NotOkBranch(status, body, RequestArgs(call).data)
           IN  raised' = e /\ Propagate(ExceptClauses(e))
    /\ session' = "closed"
    /\ UNCHANGED <<cfg, client, call, requests, nlines, readClosed, norm>>

\* A 2xx response: `return response` leaves `async with session.request(...)`
\* and `async with aiohttp.ClientSession(...)`, so the response is released
\* and the session closed before the caller holds the response
OkResponse ==
    /\ pc = "in_flight"
    /\ \E body \in (IF call.op = "get_models" THEN ModelBodies
                    ELSE {[parse |-> TRUE, json |-> [stream |-> "sse"]]}) :
        reply' = [status |-> 200, body |-> body]
    /\ session' = "closed"
    /\ pc' = IF call.op = "get_models" THEN "read_body" ELSE "stream_loop"
    /\ UNCHANGED <<cfg, client, call, requests, raised, clientOut, httpOut, events,
                   nlines, readClosed, norm>>

\* Reading the body or the lines of a response: with the session open the
\* data arrives; after release the read either finds the payload buffered
\* or fails with the transport's "Connection closed" error
ReadOutcomes(sess) == IF sess = "open" THEN {"data"} ELSE {"data", "closed"}

ConnectionClosed == RawError("ClientConnectionError", <<"Connection closed">>)

\* list_models after _make_request returned: response.json(), data.get("models", []),
\* then the rest of get_models
ReadBody ==
    /\ pc = "read_body"
    /\ readClosed' = (session # "open")
    /\ \E o \in ReadOutcomes(session) :
        IF o = "closed" THEN Propagate(ConnectionClosed)
        ELSE IF ~reply.body.parse THEN Propagate(RawError("ContentTypeError", <<>>))
        ELSE LET models == Get(reply.body.json, "models", <<>>)
             IN  /\ clientOut' = Return(models)
                 /\ httpOut' = ToGeminiModels(models)
                 /\ events' = events
                 /\ pc' = "done"
    /\ UNCHANGED <<cfg, client, call, session, requests, reply, raised, nlines, norm>>

\* `async for line in response.content`: the read fails
StreamReadFails ==
    /\ pc = "stream_loop"
    /\ "closed" \in ReadOutcomes(session)
    /\ readClosed' = (session # "open")
    /\ Propagate(ConnectionClosed)
    /\ UNCHANGED <<cfg, client, call, session, requests, reply, raised, nlines, norm>>

\* `async for` is exhausted: generate_content ends and generate() yields the end marker
StreamEnds ==
    /\ pc = "stream_loop"
    /\ readClosed' = (session # "open")
    /\ clientOut' = [kind |-> "exhausted"]
    /\ LET r == OnExhausted(events)
       IN  events' = r.events /\ httpOut' = r.out
    /\ pc' = "done"
    /\ UNCHANGED <<cfg, client, call, session, requests, reply, raised, nlines, norm>>

\* An empty line, or a line json.loads rejects: `continue`
StreamSkipsLine ==
    /\ pc = "stream_loop"
    /\ nlines < MaxLines
    /\ \E line \in {l \in StreamLines : l.kind \in {"empty", "notjson"}} :
        nlines' = nlines + 1
    /\ readClosed' = (session # "open")
    /\ UNCHANGED <<cfg, client, pc, call, session, requests, reply, raised,
                   clientOut, httpOut, events, norm>>

\* A line json.loads accepts: _process_response(data) is yielded to generate(),
\* or raises; a JSON value that is no object has no .get
StreamLine ==
    /\ pc = "stream_loop"
    /\ nlines < MaxLines
    /\ nlines' = nlines + 1
    /\ readClosed' = (session # "open")
    /\ \E line \in {l \in StreamLines : l.kind \in {"json", "nondict"}} :
        IF line.kind = "nondict"
            THEN norm' = norm /\ Propagate(RawError("AttributeError", <<>>))
            ELSE LET out == _process_response(line.data)
                 IN  /\ norm' = [data |-> line.data, out |-> out]
                     /\ IF out.kind = "raise"
                           THEN Propagate(out.exc)
                           ELSE LET r == OnChunk(events, out.value)
                                IN  /\ events' = r.events
                                    /\ httpOut' = r.out
                                    /\ clientOut' = [kind |-> "yield", value |-> out.value]
                                    /\ pc' = IF r.out = StreamOpen THEN pc ELSE "done"
    /\ UNCHANGED <<cfg, client, call, session, requests, reply, raised>>

Next ==
    \/ update_config
    \/ get_models
    \/ chat_completions
    \/ SendRequest
    \/ TransportFault
    \/ ErrorResponse
    \/ OkResponse
    \/ ReadBody
    \/ StreamReadFails
    \/ StreamEnds
    \/ StreamSkipsLine
    \/ StreamLine

Spec == Init /\ [][Next]_vars

-----------------------------------------------------------------------------
(* _process_response on its own: every provider body of the bounds *)

InitNormalize ==
    /\ cfg = [api_key |-> "k1", api_base_url |-> "https://a", enabled |-> TRUE]
    /\ client = GeminiClientInit("", "", "k1", "https://a")
    /\ pc = "normalize"
    /\ call = NoCall
    /\ session = "none"
    /\ requests = <<>>
    /\ reply = NoReply
    /\ raised = NoExc
    /\ clientOut = NoOut
    /\ httpOut = NoOut
    /\ events = <<>>
    /\ nlines = 0
    /\ readClosed = FALSE
    /\ \E d \in Bodies : norm = [data |-> d, out |-> NoOut]

Normalize ==
    /\ pc = "normalize"
    /\ norm' = [norm EXCEPT !.out = _process_response(norm.data)]
    /\ pc' = "normalized"
    /\ UNCHANGED <<cfg, client, call, session, requests, reply, raised, clientOut,
                   httpOut, events, nlines, readClosed>>

SpecNormalize == InitNormalize /\ [][Normalize]_vars

-----------------------------------------------------------------------------
(* Properties *)

TaxonomyStatus ==
    [GeminiAuthenticationError |-> 401,
     GeminiRateLimitError |-> 429,
     GeminiModelNotFoundError |-> 404,
     GeminiInvalidRequestError |-> 400,
     GeminiContextLengthExceededError |-> 400,
     GeminiTimeoutError |-> 504]

\* An instance of the taxonomy with the status code of the table of kinds
IsTaxonomyInstance(e) ==
    /\ IsInstance(e, "GeminiError")
    /\ e.cls \in DOMAIN TaxonomyStatus => e.status_code = TaxonomyStatus[e.cls]
    /\ e.cls = "GeminiServerError" => e.status_code >= 500

\* The kind the precedence of the taxonomy assigns to a status and a message
ExpectedKind(status, message) ==
    IF status = 401 THEN "GeminiAuthenticationError"
    ELSE IF status = 429 THEN "GeminiRateLimitError"
    ELSE IF status = 404 /\ Contains(PhraseModelNotFound, Lower(message))
        THEN "GeminiModelNotFoundError"
    ELSE IF status = 400 /\ Contains(PhraseContextLength, Lower(message))
        THEN "GeminiContextLengthExceededError"
    ELSE IF status = 400 THEN "GeminiInvalidRequestError"
    ELSE IF status >= 500 THEN "GeminiServerError"
    ELSE "GeminiAPIError"

\* The call in flight got a non-2xx response
GotErrorResponse == reply.status # None /\ ~Ok(reply.status)

\* The message of the provider's error envelope of the response
ReplyMessage ==
    Get(Get(reply.body.json, "error", NoData), "message", MsgUnknownError)

\* C1: a Client operation that fails surfaces a taxonomy instance (a
\* GeminiError-family value with the status code of the table), never a raw
\* transport or runtime exception, whatever the cause of the failure.
C1_FailuresAreTaxonomy ==
    clientOut.kind = "raise" => IsTaxonomyInstance(clientOut.exc)

\* C2: for every non-2xx status and provider message the kind the Client
\* raises is the one the precedence assigns (401, 429, 404 with the
\* model-not-found phrasing, 400 with the context-length phrasing, 400,
\* >= 500, else the generic API error carrying that status).
C2_KindFollowsPrecedence ==
    (pc = "done" /\ GotErrorResponse /\ reply.body.parse) =>
        /\ clientOut.kind = "raise"
        /\ clientOut.exc.cls = ExpectedKind(reply.status, ReplyMessage)
        /\ clientOut.exc.cls = "GeminiAPIError" => clientOut.exc.status_code = reply.status

\* The NormalizedResponse of a provider body with one candidate and one part
SinglePartResponse(text, finish) ==
    [choices |-> <<[message |-> [role |-> "assistant", content |-> text],
                    finish_reason |-> finish]>>,
     usage |-> [prompt_tokens |-> 0, completion_tokens |-> 0, total_tokens |-> 0]]

\* C3: a generate call with stream=false hands its caller one
\* NormalizedResponse, a single object and no sequence, with one assistant
\* choice and zero usage counters.
C3_NonStreamReturnsOneResponse ==
    (call.op = "chat" /\ ~call.stream /\ clientOut.kind = "return") =>
        \E text \in {"hello", "", "other", "lo"}, finish \in FinishReasons \cup {"OTHER", "SAFETY"} :
            clientOut.value = SinglePartResponse(text, finish)

\* C4: on HTTP 404 with a message containing "model not found" for a generate
\* call on model M, the Client raises ModelNotFound with status_code 404 and a
\* message that includes M.
C4_ModelNotFoundNamesModel ==
    (pc = "done" /\ call.op = "chat" /\ GotErrorResponse /\ reply.status = 404
        /\ reply.body.parse /\ Contains(PhraseModelNotFound, Lower(ReplyMessage))) =>
        /\ clientOut.kind = "raise"
        /\ clientOut.exc.cls = "GeminiModelNotFoundError"
        /\ clientOut.exc.status_code = 404
        /\ Contains(call.model, clientOut.exc.message)

\* A status line: it carries neither phrasing
StatusLine == <<"H", "T", "T", "P">>

\* C5: a non-2xx response whose body is no error envelope is still
\* classified by its status code, with the status line as the message.
C5_UnparseableBodyStillClassified ==
    (pc = "done" /\ GotErrorResponse /\ ~reply.body.parse) =>
        /\ clientOut.kind = "raise"
        /\ clientOut.exc.cls = ExpectedKind(reply.status, StatusLine)

\* The phrases the rejections of normalization are said to contain
PhraseNoResponse ==
    <<"n", "o", " ", "r", "e", "s", "p", "o", "n", "s", "e", " ", "f", "r", "o", "m", " ", "t", "h", "e", " ", "m", "o", "d", "e", "l">>

PhraseEmptyResponse ==
    <<"e", "m", "p", "t", "y", " ", "r", "e", "s", "p", "o", "n", "s", "e", " ", "f", "r", "o", "m", " ", "t", "h", "e", " ", "m", "o", "d", "e", "l">>

\* The body has no candidate
NoCandidates(d) == "candidates" \notin DOMAIN d \/ Len(d.candidates) = 0

\* The body has a first candidate, which has no content part
NoParts(d) ==
    /\ ~NoCandidates(d)
    /\ \/ "content" \notin DOMAIN d.candidates[1]
       \/ "parts" \notin DOMAIN d.candidates[1].content
       \/ Len(d.candidates[1].content.parts) = 0

\* The kinds whose status code is that of an invalid request
InvalidRequestFamily(e) ==
    IsInstance(e, "GeminiInvalidRequestError") \/ e.status_code = 400

\* C6 as stated: normalization rejects a body without candidates with an
\* InvalidRequest-family error saying "no response from the model", and a
\* first candidate without parts with one saying "empty response from the
\* model"; no NormalizedResponse is produced.
C6_EmptyIsInvalidRequest ==
    pc = "normalized" =>
        /\ NoCandidates(norm.data) =>
            /\ norm.out.kind = "raise"
            /\ InvalidRequestFamily(norm.out.exc)
            /\ Contains(PhraseNoResponse, Lower(norm.out.exc.message))
        /\ NoParts(norm.data) =>
            /\ norm.out.kind = "raise"
            /\ InvalidRequestFamily(norm.out.exc)
            /\ Contains(PhraseEmptyResponse, Lower(norm.out.exc.message))

\* C6 amended: normalization rejects both shapes with the base GeminiError,
\* which carries no status code, with the messages "No response from the
\* model" and "Empty response from the model"; no NormalizedResponse is
\* produced.
C6_EmptyIsBaseGeminiError ==
    pc = "normalized" =>
        /\ NoCandidates(norm.data) =>
            /\ norm.out.kind = "raise"
            /\ norm.out.exc.cls = "GeminiError"
            /\ norm.out.exc.status_code = None
            /\ Contains(PhraseNoResponse, Lower(norm.out.exc.message))
        /\ NoParts(norm.data) =>
            /\ norm.out.kind = "raise"
            /\ norm.out.exc.cls = "GeminiError"
            /\ norm.out.exc.status_code = None
            /\ Contains(PhraseEmptyResponse, Lower(norm.out.exc.message))

\* A body whose first candidate has no part, after a further candidate that
\* has one, was normalized and rejected
C6_Witness ==
    /\ pc = "normalized"
    /\ NoParts(norm.data)
    /\ Len(norm.data.candidates) = 2
    /\ "content" \in DOMAIN norm.data.candidates[2]
    /\ norm.out.kind = "raise"

\* C7: a streaming call that was admitted delivers a finite event sequence
\* that ends with the end marker, after fragments alone or after fragments
\* and one error object; it never ends without a terminal.
C7_StreamEndsWithTerminal ==
    (pc = "done" /\ call.op = "chat" /\ call.stream /\ httpOut.kind # "HTTPException") =>
        /\ Len(events) > 0
        /\ events[Len(events)] = DoneEvent
        /\ \A i \in 1..(Len(events) - 1) :
            \/ events[i].kind = "data"
            \/ events[i].kind = "error" /\ i = Len(events) - 1

\* C8: every request is sent with the api key and base url that the
\* configuration holds at that moment.
C8_RequestUsesCurrentConfig ==
    [][(pc = "request" /\ pc' = "in_flight") =>
          /\ requests'[Len(requests')].key = cfg.api_key
          /\ requests'[Len(requests')].url[1] = cfg.api_base_url]_vars

\* C9: a boundary operation that starts while the adapter is disabled or the
\* configured key is empty ends at once with a client-error status and
\* issues no request; a client whose construction failed for want of a key
\* has issued no request.
C9_NoRequestWhenDisabledOrNoKey ==
    /\ [](client.kind = "raise" => requests = <<>>)
    /\ [][(pc \in {"idle", "done"} /\ call' # NoCall /\ cfg' = cfg
            /\ (~cfg.enabled \/ cfg.api_key = "")) =>
          /\ pc' = "done"
          /\ httpOut'.kind = "HTTPException"
          /\ httpOut'.status_code \in 400..499
          /\ requests' = <<>>]_vars

\* C10: the response body is never read once the session of the call is
\* closed, and no session stays open when the call has ended.
C10_BodyReadWhileSessionOpen ==
    /\ ~readClosed
    /\ pc = "done" => session # "open"
====
